---- MODULE Spec2Model ----
(***************************************************************************)
(* State-machine model of the intel_npu plugin core:                       *)
(*   - the execution Pipeline (zero_pipeline.cpp): construction, push,     *)
(*     pull, reset, updateCommandList, with the device completing          *)
(*     submitted command lists asynchronously;                             *)
(*   - the PluginCompilerAdapter (plugin_compiler_adapter.cpp): compile,   *)
(*     compileWS, parse;                                                   *)
(*   - the PluginGraph artifact (plugin_graph.cpp).                        *)
(***************************************************************************)
EXTENDS Integers, Sequences, FiniteSets, TLC

(***************************************************************************)
(* Bounds of the model.                                                    *)
(***************************************************************************)
\* largest numberOfCommandLists a Pipeline is constructed with
MaxLists == 2
\* largest tensor byte size
MaxSize == 3
\* bits of a size_t, scaled down: size_t arithmetic is modulo 2^SizeBits
SizeBits == 4
\* largest numberOfCommandLists of a Pipeline built on tensors of any size_t size
MaxSliceLists == 3
\* submissions of one command list that may be in flight on the device
MaxInflight == 2
\* updateCommandList calls explored on one Pipeline
MaxUpdates == 1
\* segments the compiler collaborator emits in one compileWS call
MaxSegments == 3
\* initialize() calls explored on the artifacts of one adapter call
MaxInitialize == 2
\* largest byte length of an exported xml or blob
MaxBlobLen == 2
\* largest number of init graphs given to custom_export_split_init
MaxInits == 2

VARIABLES
    \* ---- Pipeline (zero_pipeline.cpp) ----
    constructed,              \* the constructor has returned
    config,                   \* _config: the options the pipeline was built with
    numberOfCommandLists,     \* constructor argument
    command_lists,            \* _command_lists: index -> CommandList
    events,                   \* _events: index -> Event
    fences,                   \* _fences: index -> Fence
    event_pool,               \* _event_pool: number of events the pool holds
    sync_output_with_fences,  \* sync_output_with_fences_
    npu_profiling,            \* _npu_profiling != nullptr
    graph_args,               \* argument values last set on the executor's graph
    inputTensorsData,         \* constructor argument
    outputTensorsData,        \* constructor argument
    command_queue,            \* _command_queue: per list, the executions in flight
    submitted,                \* the submissions of the latest push(), in order
    pc,                       \* "idle", or "pull" while pull() is blocked
    pullIdx,                  \* loop index i of pull()
    waited,                   \* indices pull() has host-waited on
    cycle,                    \* progress through reset(); push(); pull()
    pushClean,                \* latest push() found all primitives unsignaled, nothing in flight
    updates,                  \* updateCommandList calls made
    lastUpdate,               \* arguments and outcome of the last updateCommandList
    \* ---- PluginCompilerAdapter and PluginGraph ----
    adapter,                  \* the adapter getCompiler returned: created, zeGraphExt
    callResult,               \* inputs and outcome of the last adapter call
    callEnv,                  \* arguments of the last getCompiler or adapter call
    graphs,                   \* the artifacts the last adapter call returned
    graphOp,                  \* the last operation on an artifact and its outcome
    ostream                   \* the std::ostream of the last custom export and its inputs

pipeVars == <<constructed, config, numberOfCommandLists, command_lists, events, fences,
              event_pool, sync_output_with_fences, npu_profiling, graph_args,
              inputTensorsData, outputTensorsData, command_queue, submitted,
              pc, pullIdx, waited, cycle, pushClean, updates, lastUpdate>>

graphVars == <<adapter, callResult, callEnv, graphs, graphOp, ostream>>

vars == <<pipeVars, graphVars>>

(***************************************************************************)
(* The executor's graph: argument indices of its input and output          *)
(* descriptors, in descriptor order.                                       *)
(***************************************************************************)
InputDescriptors == <<0, 1>>
OutputDescriptors == <<2>>
ArgIndices == {InputDescriptors[k] : k \in DOMAIN InputDescriptors}
                  \cup {OutputDescriptors[k] : k \in DOMAIN OutputDescriptors}

Sizes == 0..MaxSize
\* TensorData{mem, size}; the buffers of distinct tensors are far apart
TensorData(base, sz) == [mem |-> base, size |-> sz]
\* the tensors a Pipeline is constructed with: two inputs, one output
InputTensors == {<<TensorData(100, s), TensorData(200, MaxSize - s)>> : s \in Sizes}
OutputTensors == {<<TensorData(300, s)>> : s \in Sizes}
\* the tensors updateCommandList is called with
UpdateTensors == {TensorData(400, s) : s \in Sizes}

Indices(n) == 0..(n - 1)

\* the number of values of a size_t
SizeT == 2 ^ SizeBits

\* every value a size_t tensor size can take
WideSizes == 0..(SizeT - 1)

\* (i * size) / numberOfCommandLists, size_t arithmetic: the product wraps
SliceOffset(i, size, n) == ((i * size) % SizeT) \div n

\* (mutant) ++ioIndex forgotten: every descriptor is given tensor 0
SetArgumentValues_noIncrement(args, descs, tensors, i, n) ==
    [a \in DOMAIN args |->
        IF \E k \in DOMAIN descs : descs[k] = a
        THEN tensors[1].mem + (i * tensors[1].size) \div n
        ELSE args[a]]

\* one loop over descriptors: setArgumentValue(desc.idx, tensors.at(ioIndex)->mem + offset)
SetArgumentValues(args, descs, tensors, i, n) ==
    [a \in DOMAIN args |->
        IF \E k \in DOMAIN descs : descs[k] = a
        THEN LET k == CHOOSE k \in DOMAIN descs : descs[k] = a
             IN  tensors[k].mem + SliceOffset(i, tensors[k].size, n)
        ELSE args[a]]

\* graph argument values after iteration i of the constructor's second loop
RECURSIVE GraphArgsAfter(_, _, _, _)
GraphArgsAfter(i, n, inT, outT) ==
    IF i < 0 THEN [a \in ArgIndices |-> 0]
    ELSE SetArgumentValues(
             SetArgumentValues(GraphArgsAfter(i - 1, n, inT, outT),
                               InputDescriptors, inT, i, n),
             OutputDescriptors, outT, i, n)

Instr(op, n) == [op |-> op, n |-> n]

\* CommandList::appendGraphExecute records the graph's current argument values
AppendGraphExecute(cl, args) ==
    [cl EXCEPT !.instrs = Append(@, Instr("appendGraphExecute", 0)), !.args = args]
AppendBarrier(cl) == [cl EXCEPT !.instrs = Append(@, Instr("appendBarrier", 0))]
AppendNpuTimestamp(cl, slot) ==
    [cl EXCEPT !.instrs = Append(@, Instr("appendNpuTimestamp", slot))]
AppendSignalEvent(cl, e) ==
    [cl EXCEPT !.instrs = Append(@, Instr("AppendSignalEvent", e))]
Close(cl) == [cl EXCEPT !.closed = TRUE]

\* a fresh CommandList
NewCommandList(mutable) ==
    [instrs |-> <<>>, args |-> [a \in ArgIndices |-> 0], closed |-> FALSE,
     mutable |-> mutable]

\* (mutant) every list signals the event of index 0
RecordList_signalZero(cl, i, n, inT, outT, prof, withFences) ==
    LET c1 == IF prof THEN AppendNpuTimestamp(AppendBarrier(cl), 0) ELSE cl
        c2 == AppendGraphExecute(c1, GraphArgsAfter(i, n, inT, outT))
        c3 == IF prof THEN AppendNpuTimestamp(AppendBarrier(c2), 1) ELSE c2
        c4 == IF ~withFences THEN AppendSignalEvent(AppendBarrier(c3), 0) ELSE c3
    IN  Close(c4)

\* (mutant) the event is signalled ahead of the graph execution
RecordList_signalFirst(cl, i, n, inT, outT, prof, withFences) ==
    LET c0 == IF ~withFences THEN AppendSignalEvent(AppendBarrier(cl), i) ELSE cl
        c1 == IF prof THEN AppendNpuTimestamp(AppendBarrier(c0), 0) ELSE c0
        c2 == AppendGraphExecute(c1, GraphArgsAfter(i, n, inT, outT))
        c3 == IF prof THEN AppendNpuTimestamp(AppendBarrier(c2), 1) ELSE c2
    IN  Close(c3)

\* (mutant) the event signal is not recorded in event-sync mode
RecordList_noSignal(cl, i, n, inT, outT, prof, withFences) ==
    LET c1 == IF prof THEN AppendNpuTimestamp(AppendBarrier(cl), 0) ELSE cl
        c2 == AppendGraphExecute(c1, GraphArgsAfter(i, n, inT, outT))
        c3 == IF prof THEN AppendNpuTimestamp(AppendBarrier(c2), 1) ELSE c2
    IN  Close(c3)

\* body of the constructor's second loop for index i
RecordList(cl, i, n, inT, outT, prof, withFences) ==
    LET c1 == IF prof THEN AppendNpuTimestamp(AppendBarrier(cl), 0) ELSE cl
        c2 == AppendGraphExecute(c1, GraphArgsAfter(i, n, inT, outT))
        c3 == IF prof THEN AppendNpuTimestamp(AppendBarrier(c2), 1) ELSE c2
        c4 == IF ~withFences THEN AppendSignalEvent(AppendBarrier(c3), i) ELSE c3
    IN  Close(c4)

\* (mutant) the event pool is sized to the number of command lists, 0 included
EventPoolSize_exact(n) == n

\* size of the event pool
EventPoolSize(n) == IF n # 0 THEN n ELSE 1

PipeInit ==
    /\ constructed = FALSE
    /\ config = [RUN_INFERENCES_SEQUENTIALLY |-> FALSE]
    /\ numberOfCommandLists = 0
    /\ command_lists = <<>>
    /\ events = <<>>
    /\ fences = <<>>
    /\ event_pool = 0
    /\ sync_output_with_fences = FALSE
    /\ npu_profiling = FALSE
    /\ graph_args = [a \in ArgIndices |-> 0]
    /\ inputTensorsData = <<>>
    /\ outputTensorsData = <<>>
    /\ command_queue = <<>>
    /\ submitted = <<>>
    /\ pc = "idle"
    /\ pullIdx = 0
    /\ waited = {}
    /\ cycle = 0
    /\ pushClean = FALSE
    /\ updates = 0
    /\ lastUpdate = [index |-> 0, data |-> TensorData(0, 0), outcome |-> "none"]

\* Pipeline::Pipeline
Construct(n, inT, outT, prof, withFences, mclVersion, runSequentially) ==
    /\ ~constructed
    /\ constructed' = TRUE
    /\ config' = [RUN_INFERENCES_SEQUENTIALLY |-> runSequentially]
    /\ numberOfCommandLists' = n
    /\ event_pool' = EventPoolSize(n)
    /\ sync_output_with_fences' = withFences
    /\ npu_profiling' = prof
    /\ inputTensorsData' = inT
    /\ outputTensorsData' = outT
    /\ command_lists' = [i \in Indices(n) |->
                            RecordList(NewCommandList(mclVersion # 0), i, n, inT, outT,
                                       prof, withFences)]
    /\ events' = [i \in Indices(n) |-> [index |-> i, signaled |-> FALSE]]
    /\ fences' = [i \in Indices(n) |-> [signaled |-> FALSE]]
    /\ graph_args' = GraphArgsAfter(n - 1, n, inT, outT)
    /\ command_queue' = [i \in Indices(n) |-> [cur |-> 0, old |-> 0]]
    /\ UNCHANGED <<submitted, pc, pullIdx, waited, cycle, pushClean, updates, lastUpdate>>

\* the primitive pull() and reset() use for index i
Signaled(i) ==
    IF sync_output_with_fences THEN fences[i].signaled ELSE events[i].signaled

\* CommandQueue::executeCommandList: one more execution of list i is in flight
ExecuteCommandList(q, i) ==
    [q EXCEPT ![i] = [cur |-> 1, old |-> q[i].old + q[i].cur]]

\* the loop of push(), indices i..n-1
RECURSIVE PushLoop(_, _, _)
PushLoop(q, i, n) ==
    IF i < n THEN PushLoop(ExecuteCommandList(q, i), i + 1, n) ELSE q

\* (mutant) every submission is made without a fence
Submission_bare(i) == [list |-> i, fence |-> -1]

\* what submission i of push() hands to the queue: the list and, in fence mode, a fence
Submission(i) ==
    [list |-> i, fence |-> IF sync_output_with_fences THEN i ELSE -1]

NothingInFlight ==
    \A i \in DOMAIN command_queue : command_queue[i].cur = 0 /\ command_queue[i].old = 0

\* Pipeline::push
Push ==
    /\ constructed
    /\ pc = "idle"
    /\ \A i \in DOMAIN command_queue :
           command_queue[i].cur + command_queue[i].old < MaxInflight
    /\ command_queue' = PushLoop(command_queue, 0, numberOfCommandLists)
    /\ submitted' = [k \in 1..numberOfCommandLists |-> Submission(k - 1)]
    /\ pushClean' = (NothingInFlight
                       /\ (\A i \in DOMAIN events : ~events[i].signaled)
                       /\ (\A j \in DOMAIN fences : ~fences[j].signaled))
    /\ cycle' = IF cycle = 1 THEN 2 ELSE 0
    /\ UNCHANGED <<constructed, config, numberOfCommandLists, command_lists, events, fences,
                   event_pool, sync_output_with_fences, npu_profiling, graph_args,
                   inputTensorsData, outputTensorsData, pc, pullIdx, waited,
                   updates, lastUpdate>>

\* events the instructions of a command list signal when it completes
SignalledEvents(cl) ==
    {cl.instrs[k].n : k \in {j \in DOMAIN cl.instrs : cl.instrs[j].op = "AppendSignalEvent"}}

\* The device finishes one execution of list i (fromCur: the one of the latest
\* push()): the fence of the submission and the events the list signals become
\* signaled.
DeviceComplete(i, fromCur) ==
    /\ constructed
    /\ i \in DOMAIN command_queue
    /\ IF fromCur THEN command_queue[i].cur > 0 ELSE command_queue[i].old > 0
    /\ command_queue' =
           [command_queue EXCEPT ![i] =
               IF fromCur THEN [@ EXCEPT !.cur = 0] ELSE [@ EXCEPT !.old = @ - 1]]
    /\ fences' = IF sync_output_with_fences
                 THEN [fences EXCEPT ![i].signaled = TRUE]
                 ELSE fences
    /\ events' = [e \in DOMAIN events |->
                     IF e \in SignalledEvents(command_lists[i])
                     THEN [events[e] EXCEPT !.signaled = TRUE]
                     ELSE events[e]]
    /\ UNCHANGED <<constructed, config, numberOfCommandLists, command_lists, event_pool,
                   sync_output_with_fences, npu_profiling, graph_args,
                   inputTensorsData, outputTensorsData, submitted, pc, pullIdx,
                   waited, cycle, pushClean, updates, lastUpdate>>

\* Pipeline::pull is entered
PullBegin ==
    /\ constructed
    /\ pc = "idle"
    /\ pc' = "pull"
    /\ pullIdx' = 0
    /\ waited' = {}
    /\ cycle' = IF cycle = 2 THEN 3 ELSE 0
    /\ UNCHANGED <<constructed, config, numberOfCommandLists, command_lists, events, fences,
                   event_pool, sync_output_with_fences, npu_profiling, graph_args,
                   inputTensorsData, outputTensorsData, command_queue, submitted,
                   pushClean, updates, lastUpdate>>

\* (mutant) every iteration waits on the primitive of index 0
PullWaitsOn_first(i) == Signaled(0)

\* the primitive whose hostSynchronize() iteration i of pull() blocks on
PullWaitsOn(i) == Signaled(i)

\* one iteration of the loop of pull(): hostSynchronize() returns once signaled
PullStep ==
    /\ pc = "pull"
    /\ pullIdx < Cardinality(DOMAIN command_lists)
    /\ PullWaitsOn(pullIdx)
    /\ waited' = waited \cup {pullIdx}
    /\ pullIdx' = pullIdx + 1
    /\ UNCHANGED <<constructed, config, numberOfCommandLists, command_lists, events, fences,
                   event_pool, sync_output_with_fences, npu_profiling, graph_args,
                   inputTensorsData, outputTensorsData, command_queue, submitted,
                   pc, cycle, pushClean, updates, lastUpdate>>

\* the loop of pull() ends and pull() returns
PullReturn ==
    /\ pc = "pull"
    /\ ~(pullIdx < Cardinality(DOMAIN command_lists))
    /\ pc' = "idle"
    /\ UNCHANGED <<constructed, config, numberOfCommandLists, command_lists, events, fences,
                   event_pool, sync_output_with_fences, npu_profiling, graph_args,
                   inputTensorsData, outputTensorsData, command_queue, submitted,
                   pullIdx, waited, cycle, pushClean, updates, lastUpdate>>

\* Pipeline::reset
Reset ==
    /\ constructed
    /\ pc = "idle"
    /\ fences' = IF sync_output_with_fences
                 THEN [i \in DOMAIN fences |-> [fences[i] EXCEPT !.signaled = FALSE]]
                 ELSE fences
    /\ events' = IF sync_output_with_fences
                 THEN events
                 ELSE [i \in DOMAIN events |-> [events[i] EXCEPT !.signaled = FALSE]]
    /\ cycle' = 1
    /\ UNCHANGED <<constructed, config, numberOfCommandLists, command_lists, event_pool,
                   sync_output_with_fences, npu_profiling, graph_args,
                   inputTensorsData, outputTensorsData, command_queue, submitted,
                   pc, pullIdx, waited, pushClean, updates, lastUpdate>>

\* CommandList::updateMutableCommandList: patches one recorded argument binding;
\* the list has to be closed again afterwards
UpdateMutableCommandList(cl, index, value) ==
    [cl EXCEPT !.args[index] = value, !.closed = FALSE]

\* (mutant) the slice offset is forgotten: every list gets the tensor's base
UpdateAddress_noSlice(data, i, n) == data.mem

\* the address updateCommandList passes for list i
UpdateAddress(data, i, n) == data.mem + SliceOffset(i, data.size, n)

\* body of the loop of updateCommandList for list i
UpdateList(cl, data, index, i, n) ==
    Close(UpdateMutableCommandList(cl, index, UpdateAddress(data, i, n)))

\* Outcomes of updateMutableCommandList on the lists of this Pipeline.  On lists
\* created without mutable-command-list support the call is undefined: the
\* driver may refuse it (the wrapper throws) or patch the list all the same.
UpdateOutcomes ==
    IF \A i \in DOMAIN command_lists : command_lists[i].mutable
    THEN {"patched"}
    ELSE {"driver_error", "patched"}

\* Pipeline::updateCommandList
UpdateCommandList(data, index) ==
    /\ constructed
    /\ pc = "idle"
    /\ updates < MaxUpdates
    /\ \E outcome \in UpdateOutcomes :
          /\ command_lists' =
                 IF outcome = "patched"
                 THEN [i \in DOMAIN command_lists |->
                          UpdateList(command_lists[i], data, index, i,
                                     Cardinality(DOMAIN command_lists))]
                 ELSE command_lists
          /\ lastUpdate' = [index |-> index, data |-> data, outcome |-> outcome]
    /\ updates' = updates + 1
    /\ cycle' = 0
    /\ UNCHANGED <<constructed, config, numberOfCommandLists, events, fences, event_pool,
                   sync_output_with_fences, npu_profiling, graph_args,
                   inputTensorsData, outputTensorsData, command_queue, submitted,
                   pc, pullIdx, waited, pushClean>>


DeviceStep == \E i \in Indices(MaxLists), fromCur \in BOOLEAN : DeviceComplete(i, fromCur)

(***************************************************************************)
(* PluginGraph (plugin_graph.cpp) and PluginCompilerAdapter                *)
(* (plugin_compiler_adapter.cpp).                                          *)
(***************************************************************************)
\* nullptr as a ze_graph_handle_t
NullHandle == 0

\* the compiled bytes of segment k of a compilation: k bytes of value k
BlobOf(k) == [j \in 1..k |-> k]
\* the handle the driver creates for a blob (never null)
HandleOf(blob) == Len(blob) + 1

INIT_NAME == <<"i", "n", "i", "t">>
MAIN_NAME == <<"m", "a", "i", "n">>
\* names the compiler collaborator gives its segments; the last one is a proper
\* prefix of "main"
SegmentNames == {INIT_NAME \o <<"_", "0">>, MAIN_NAME, <<"m", "a", "i">>}

\* NetworkDescription{compiledNetwork, metadata}
NetworkDescription(name, k) == [name |-> name, blob |-> BlobOf(k), null |-> FALSE]
\* a null shared_ptr<NetworkDescription>
NullDescription == [name |-> <<>>, blob |-> <<>>, null |-> TRUE]

\* what the compiler returns over successive calls (compileWS_v2, compileWS_v3),
\* or in one vector (compileWS_v1): segment k carries blob BlobOf(k)
Scripts ==
    UNION {[1..len -> SegmentNames] : len \in 0..MaxSegments}
DescriptionsOf(script) ==
    [k \in 1..Len(script) |-> NetworkDescription(script[k], k)]

\* str.substr(0, prefix.size()) == prefix
starts_with(str, prefix) ==
    SubSeq(str, 1, IF Len(prefix) < Len(str) THEN Len(prefix) ELSE Len(str)) = prefix
isInit(name) == starts_with(name, INIT_NAME)
isMain(name) == starts_with(name, MAIN_NAME)

\* Config values read by the adapter and the graph, and the answers of the
\* driver during PluginGraph::initialize.
Config(createExecutor, deferWeightsLoad, batchModeCompiler, runSequentially) ==
    [CREATE_EXECUTOR |-> createExecutor, DEFER_WEIGHTS_LOAD |-> deferWeightsLoad,
     BATCH_MODE_COMPILER |-> batchModeCompiler,
     RUN_INFERENCES_SEQUENTIALLY |-> runSequentially]
\* propsOk: pfnGetProperties succeeds; numGraphArgs: props.numGraphArgs;
\* numInputs: arguments 0..numInputs-1 are of type INPUT; argFail: the index at
\* which pfnGetArgumentProperties3 fails (-1: none); initOk: initializeGraph
\* succeeds; batch: the batch size the metadata gives (-1: none)
Driver(propsOk, numGraphArgs, numInputs, argFail, initOk, batch) ==
    [propsOk |-> propsOk, numGraphArgs |-> numGraphArgs, numInputs |-> numInputs,
     argFail |-> argFail, initOk |-> initOk, batch |-> batch]

\* the configurations and drivers the adapter calls are explored with: an
\* executor created at once, weights loading deferred, and a driver whose
\* pfnGetProperties fails
AdapterEnvs ==
    {[cfg |-> Config(TRUE, FALSE, FALSE, TRUE), drv |-> Driver(TRUE, 3, 2, -1, TRUE, 2)],
     [cfg |-> Config(TRUE, TRUE, FALSE, FALSE), drv |-> Driver(TRUE, 3, 2, -1, TRUE, 2)],
     [cfg |-> Config(TRUE, FALSE, TRUE, FALSE), drv |-> Driver(FALSE, 3, 2, -1, TRUE, -1)],
     [cfg |-> Config(FALSE, FALSE, FALSE, TRUE), drv |-> Driver(TRUE, 3, 2, -1, TRUE, 2)]}

\* IGraph(graphHandle, metadata, config, blobPtr): the members of a new PluginGraph
NewGraph(ext, handle, nd) ==
    [handle |-> handle, name |-> nd.name, blob |-> nd.blob, ext |-> ext,
     input_descriptors |-> <<>>, output_descriptors |-> <<>>,
     command_queue |-> FALSE, graph_initialized |-> FALSE,
     batch_size |-> -1, last_submitted_event |-> 0]

\* argument indices first..last-1 of the given type, in index order
RECURSIVE ArgsOfType(_, _, _, _)
ArgsOfType(first, last, drv, input) ==
    IF first >= last THEN <<>>
    ELSE (IF (first < drv.numInputs) = input THEN <<first>> ELSE <<>>)
             \o ArgsOfType(first + 1, last, drv, input)

\* IGraph::get_batch_size(_metadata)
get_batch_size(drv) == drv.batch

\* the batch size computed whatever the batch mode
SetBatchSize_always(g, cfg, drv) == [g EXCEPT !.batch_size = get_batch_size(drv)]

\* if (config.get<BATCH_MODE>() != BatchMode::COMPILER) _batch_size = get_batch_size(_metadata)
SetBatchSize(g, cfg, drv) ==
    IF ~cfg.BATCH_MODE_COMPILER
    THEN [g EXCEPT !.batch_size = get_batch_size(drv)]
    ELSE g

\* (mutant) initialize() returns early only without a driver context
NothingToInitialize_extOnly(g) == ~g.ext

\* if (_zeGraphExt == nullptr || _handle == nullptr) return
NothingToInitialize(g) == ~g.ext \/ g.handle = NullHandle

\* (mutant) the result of pfnGetArgumentProperties3 is not looked at
FailedArgument_ignored(drv) == FALSE

\* some pfnGetArgumentProperties3 call of the loop fails
FailedArgument(drv) == drv.argFail \in 0..(drv.numGraphArgs - 1)

\* (mutant) one slot whatever the batch size
ResizeLastSubmittedEvent_one(g, cfg) ==
    IF cfg.RUN_INFERENCES_SEQUENTIALLY
    THEN [g EXCEPT !.last_submitted_event = 1]
    ELSE g

\* if (RUN_INFERENCES_SEQUENTIALLY) _last_submitted_event.resize(batch size or 1)
ResizeLastSubmittedEvent(g, cfg) ==
    IF cfg.RUN_INFERENCES_SEQUENTIALLY
    THEN [g EXCEPT !.last_submitted_event = IF g.batch_size # -1 THEN g.batch_size ELSE 1]
    ELSE g

\* PluginGraph::initialize: the graph afterwards, and the call that failed if any
initialize(g, cfg, drv) ==
    IF NothingToInitialize(g)
    THEN [thrown |-> FALSE, error |-> "", g |-> g]
    ELSE IF ~drv.propsOk
    THEN [thrown |-> TRUE, error |-> "pfnGetProperties", g |-> g]
    ELSE
    LET failed == FailedArgument(drv)
        upto == IF failed THEN drv.argFail ELSE drv.numGraphArgs
        g1 == [g EXCEPT
                 !.input_descriptors = @ \o ArgsOfType(0, upto, drv, TRUE),
                 !.output_descriptors = @ \o ArgsOfType(0, upto, drv, FALSE)]
        g2 == [g1 EXCEPT !.command_queue = TRUE]
        g3 == [g2 EXCEPT !.graph_initialized = TRUE]
        g4 == SetBatchSize(g3, cfg, drv)
        g5 == ResizeLastSubmittedEvent(g4, cfg)
    IN  IF failed
        THEN [thrown |-> TRUE, error |-> "pfnGetArgumentProperties3", g |-> g1]
        ELSE IF ~drv.initOk
        THEN [thrown |-> TRUE, error |-> "initializeGraph", g |-> g2]
        ELSE [thrown |-> FALSE, error |-> "", g |-> g5]

\* (mutant) only DEFER_WEIGHTS_LOAD defers initialize()
InitializeDeferred_deferOnly(cfg) == cfg.DEFER_WEIGHTS_LOAD

\* if (!config.get<CREATE_EXECUTOR>() || config.get<DEFER_WEIGHTS_LOAD>()) return
InitializeDeferred(cfg) == ~cfg.CREATE_EXECUTOR \/ cfg.DEFER_WEIGHTS_LOAD

\* PluginGraph::PluginGraph
PluginGraph(ext, handle, nd, cfg, drv) ==
    IF InitializeDeferred(cfg)
    THEN [thrown |-> FALSE, error |-> "", g |-> NewGraph(ext, handle, nd)]
    ELSE initialize(NewGraph(ext, handle, nd), cfg, drv)

\* one getGraphHandle attempt, as logged in callResult.attempts
Attempt(blob, ok) == [blob |-> blob, ok |-> ok]

\* ZeGraphExtWrappers::getGraphHandle succeeds on this blob; failing is the set
\* of blob sizes the driver rejects
Realizable(blob, failing) == Len(blob) \notin failing

GraphInit ==
    /\ adapter = [created |-> FALSE, ext |-> FALSE]
    /\ callResult = [op |-> "none", outcome |-> "none", error |-> "", version |-> 0,
                     script |-> <<>>, calls |-> <<>>, attempts |-> <<>>]
    /\ callEnv = [op |-> "none"]
    /\ graphs = <<>>
    /\ graphOp = [op |-> "none", graph |-> 0, outcome |-> "none", error |-> "",
                  result |-> 0, driverHandle |-> -1]
    /\ ostream = [op |-> "none", xml |-> <<>>, bin |-> <<>>, main |-> <<>>,
                  inits |-> <<>>, bytes |-> <<>>, fail |-> FALSE]

Result(op, outcome, error, version, script, calls, attempts) ==
    [op |-> op, outcome |-> outcome, error |-> error, version |-> version,
     script |-> script, calls |-> calls, attempts |-> attempts]

\* (mutant) every non-null backend hands over its init structures
HasInitStructs_anyBackend(backend) == backend # "none"

\* !(engineBackend == nullptr || engineBackend->getName() != "LEVEL0")
HasInitStructs(backend) == ~(backend = "none" \/ backend # "LEVEL0")

\* the arguments of a getCompiler call
FactoryCall(compilerType, backend) ==
    [op |-> "getCompiler", compilerType |-> compilerType, backend |-> backend]

\* the config and the driver's answers of a compile, parse or compileWS call
AdapterCall(cfg, drv) == [op |-> "adapter", cfg |-> cfg, drv |-> drv]

\* CompilerAdapterFactory::getCompiler and PluginCompilerAdapter::PluginCompilerAdapter;
\* backend "none" is a null engine backend
GetCompiler(compilerType, backend) ==
    /\ ~adapter.created
    /\ callResult.op = "none"
    /\ callEnv' = FactoryCall(compilerType, backend)
    /\ IF compilerType \in {"DRIVER", "MLIR"}
       THEN /\ adapter' = [created |-> TRUE, ext |-> HasInitStructs(backend)]
            /\ UNCHANGED callResult
       ELSE /\ callResult' = Result("getCompiler", "error", "Invalid NPU_COMPILER_TYPE",
                                    0, <<>>, <<>>, <<>>)
            /\ UNCHANGED adapter
    /\ UNCHANGED <<graphs, graphOp, ostream>>

\* The adapter's methods are const and keep nothing between calls: a behaviour
\* follows one call of the adapter and then the artifacts this call returned.
AdapterIdle == adapter.created /\ callResult.op = "none"

\* the try/catch of compile() around getGraphHandle with the exception let through
CompileHandle_noCatch(ext, blob, failing) ==
    IF ~ext THEN [handle |-> NullHandle, thrown |-> FALSE, attempts |-> <<>>]
    ELSE IF Realizable(blob, failing)
    THEN [handle |-> HandleOf(blob), thrown |-> FALSE, attempts |-> <<Attempt(blob, TRUE)>>]
    ELSE [handle |-> NullHandle, thrown |-> TRUE, attempts |-> <<Attempt(blob, FALSE)>>]

\* the try/catch of compile() around getGraphHandle: the handle, and whether an
\* exception leaves the block
CompileHandle(ext, blob, failing) ==
    IF ~ext THEN [handle |-> NullHandle, thrown |-> FALSE, attempts |-> <<>>]
    ELSE IF Realizable(blob, failing)
    THEN [handle |-> HandleOf(blob), thrown |-> FALSE, attempts |-> <<Attempt(blob, TRUE)>>]
    ELSE [handle |-> NullHandle, thrown |-> FALSE, attempts |-> <<Attempt(blob, FALSE)>>]

\* PluginCompilerAdapter::compile
Compile(name, k, compilerOk, failing, cfg, drv) ==
    LET nd == NetworkDescription(name, k)
        h == CompileHandle(adapter.ext, nd.blob, failing)
        made == PluginGraph(adapter.ext, h.handle, nd, cfg, drv)
    IN
    /\ AdapterIdle
    /\ IF ~compilerOk
       THEN /\ callResult' = Result("compile", "error", "compiler", 0, <<name>>, <<>>, <<>>)
            /\ graphs' = <<>>
       ELSE IF h.thrown
       THEN /\ callResult' = Result("compile", "error", "getGraphHandle", 0, <<name>>,
                                    <<>>, h.attempts)
            /\ graphs' = <<>>
       ELSE IF made.thrown
       THEN /\ callResult' = Result("compile", "error", made.error, 0, <<name>>, <<>>,
                                    h.attempts)
            /\ graphs' = <<>>
       ELSE /\ callResult' = Result("compile", "ok", "", 0, <<name>>, <<>>, h.attempts)
            /\ graphs' = <<made.g>>
    /\ callEnv' = AdapterCall(cfg, drv)
    /\ UNCHANGED <<adapter, graphOp, ostream>>

\* getGraphHandle in parse() as if wrapped in the try/catch of compile()
ParseHandle_caught(ext, blob, failing) ==
    IF ~ext THEN [handle |-> NullHandle, thrown |-> FALSE, attempts |-> <<>>]
    ELSE IF Realizable(blob, failing)
    THEN [handle |-> HandleOf(blob), thrown |-> FALSE, attempts |-> <<Attempt(blob, TRUE)>>]
    ELSE [handle |-> NullHandle, thrown |-> FALSE, attempts |-> <<Attempt(blob, FALSE)>>]

\* getGraphHandle in parse(): no try/catch
ParseHandle(ext, blob, failing) ==
    IF ~ext THEN [handle |-> NullHandle, thrown |-> FALSE, attempts |-> <<>>]
    ELSE IF Realizable(blob, failing)
    THEN [handle |-> HandleOf(blob), thrown |-> FALSE, attempts |-> <<Attempt(blob, TRUE)>>]
    ELSE [handle |-> NullHandle, thrown |-> TRUE, attempts |-> <<Attempt(blob, FALSE)>>]

\* PluginCompilerAdapter::parse
Parse(name, k, compilerOk, failing, cfg, drv) ==
    LET nd == NetworkDescription(name, k)
        h == ParseHandle(adapter.ext, nd.blob, failing)
        made == PluginGraph(adapter.ext, h.handle, nd, cfg, drv)
    IN
    /\ AdapterIdle
    /\ IF ~compilerOk
       THEN /\ callResult' = Result("parse", "error", "compiler", 0, <<name>>, <<>>, <<>>)
            /\ graphs' = <<>>
       ELSE IF h.thrown
       THEN /\ callResult' = Result("parse", "error", "getGraphHandle", 0, <<name>>,
                                    <<>>, h.attempts)
            /\ graphs' = <<>>
       ELSE IF made.thrown
       THEN /\ callResult' = Result("parse", "error", made.error, 0, <<name>>, <<>>,
                                    h.attempts)
            /\ graphs' = <<>>
       ELSE /\ callResult' = Result("parse", "ok", "", 0, <<name>>, <<>>, h.attempts)
            /\ graphs' = <<made.g>>
    /\ callEnv' = AdapterCall(cfg, drv)
    /\ UNCHANGED <<adapter, graphOp, ostream>>


\* What a use of an absent object (back() of an empty vector, element 0 of an
\* empty vector, a null NetworkDescription dereferenced) can do: end the process,
\* or read garbage whose name does or does not start with "main".
UBOutcomes == {"crash", "reads_main", "reads_other"}
GarbageDescription(ub) ==
    [name |-> IF ub = "reads_main" THEN MAIN_NAME ELSE <<>>, blob |-> <<>>, null |-> TRUE]

\* compileWS case 1, the loop over initMainNetworkDescriptions from element k on
RECURSIVE WrapSegments(_, _, _, _, _, _, _, _)
WrapSegments(descs, k, ext, failing, cfg, drv, results, attempts) ==
    IF k > Len(descs)
    THEN [thrown |-> FALSE, error |-> "", graphs |-> results, attempts |-> attempts]
    ELSE LET h == CompileHandle(ext, descs[k].blob, failing)
             made == PluginGraph(ext, h.handle, descs[k], cfg, drv)
         IN  IF h.thrown
             THEN [thrown |-> TRUE, error |-> "getGraphHandle", graphs |-> <<>>,
                   attempts |-> attempts \o h.attempts]
             ELSE IF made.thrown
             THEN [thrown |-> TRUE, error |-> made.error, graphs |-> <<>>,
                   attempts |-> attempts \o h.attempts]
             ELSE WrapSegments(descs, k + 1, ext, failing, cfg, drv,
                               Append(results, made.g), attempts \o h.attempts)

\* compileWS case 1
CompileWS_v1(script, ext, failing, cfg, drv, ub) ==
    LET descs == DescriptionsOf(script)
        calls == <<[index |-> -1, model |-> 0, mutated |-> FALSE]>>
        wrapped == WrapSegments(descs, 1, ext, failing, cfg, drv, <<>>, <<>>)
        \* initMainNetworkDescriptions.back() of an empty vector
        lastName == IF Len(descs) = 0 THEN GarbageDescription(ub).name
                    ELSE descs[Len(descs)].name
    IN  IF Len(descs) = 0 /\ ub = "crash"
        THEN [result |-> Result("compileWS", "crash", "", 1, script, calls, <<>>),
              graphs |-> <<>>]
        ELSE IF ~isMain(lastName)
        THEN [result |-> Result("compileWS", "error", "Unexpected network name for main",
                                1, script, calls, <<>>),
              graphs |-> <<>>]
        ELSE IF wrapped.thrown
        THEN [result |-> Result("compileWS", "error", wrapped.error, 1, script, calls,
                                wrapped.attempts),
              graphs |-> <<>>]
        ELSE [result |-> Result("compileWS", "ok", "", 1, script, calls, wrapped.attempts),
              graphs |-> wrapped.graphs]

\* the element of initDscrs that becomes the init artifact, were it the last one
RetainedInit_last(initDscrs) == initDscrs[Len(initDscrs)]

\* initDscrs[0]
RetainedInit(initDscrs) == initDscrs[1]

\* the model of the next call after an init segment, were targetModel left alone
\* in case 3
NextTargetModel_reuse(version, targetModel, clones) == targetModel

\* the model of the next call after an init segment: case 2 passes the caller's
\* model again, case 3 sets targetModel = originalModel->clone()
NextTargetModel(version, targetModel, clones) ==
    IF version = 3 THEN clones + 1 ELSE targetModel

\* The while loops of compileWS cases 2 and 3 from call k on.  Models are numbered:
\* 0 is the caller's model, j > 0 is the j-th clone of originalModel; passed is
\* the set of models the compiler has been given (and may have mutated).
RECURSIVE CollectLoop(_, _, _, _, _, _, _)
CollectLoop(script, version, k, targetModel, clones, initDscrs, calls) ==
    LET call == [index |-> IF version = 3 THEN k - 1 ELSE -1, model |-> targetModel,
                 mutated |-> \E c \in 1..Len(calls) : calls[c].model = targetModel]
        made == Append(calls, call)
    IN  IF k > Len(script)
        THEN [end |-> "null", initDscrs |-> initDscrs, main |-> NullDescription,
              calls |-> made]
        ELSE IF isInit(script[k])
        THEN CollectLoop(script, version, k + 1,
                         NextTargetModel(version, targetModel, clones),
                         IF version = 3 THEN clones + 1 ELSE clones,
                         Append(initDscrs, NetworkDescription(script[k], k)), made)
        ELSE IF ~isMain(script[k])
        THEN [end |-> "assert", initDscrs |-> initDscrs, main |-> NullDescription,
              calls |-> made]
        ELSE [end |-> "main", initDscrs |-> initDscrs,
              main |-> NetworkDescription(script[k], k), calls |-> made]

\* the single try/catch around both getGraphHandle calls after the switch
WSHandles(ext, init, main, failing) ==
    IF ~ext
    THEN [init |-> NullHandle, main |-> NullHandle, attempts |-> <<>>]
    ELSE IF ~Realizable(init.blob, failing)
    THEN [init |-> NullHandle, main |-> NullHandle,
          attempts |-> <<Attempt(init.blob, FALSE)>>]
    ELSE IF ~Realizable(main.blob, failing)
    THEN [init |-> HandleOf(init.blob), main |-> NullHandle,
          attempts |-> <<Attempt(init.blob, TRUE), Attempt(main.blob, FALSE)>>]
    ELSE [init |-> HandleOf(init.blob), main |-> HandleOf(main.blob),
          attempts |-> <<Attempt(init.blob, TRUE), Attempt(main.blob, TRUE)>>]

\* compileWS cases 2 and 3 and the common tail of compileWS
CompileWS_v23(version, script, ext, failing, cfg, drv, ub) ==
    LET loop == CollectLoop(script, version, 1, 0, 0, <<>>, <<>>)
        absent == Len(loop.initDscrs) = 0 \/ loop.main.null
        init == IF Len(loop.initDscrs) = 0 THEN GarbageDescription(ub)
                ELSE RetainedInit(loop.initDscrs)
        main == IF loop.main.null THEN GarbageDescription(ub) ELSE loop.main
        h == WSHandles(ext, init, main, failing)
        initPluginGraph == PluginGraph(ext, h.init, init, cfg, drv)
        mainPluginGraph == PluginGraph(ext, h.main, main, cfg, drv)
    IN  IF loop.end = "assert"
        THEN [result |-> Result("compileWS", "error", "Unexpected network name",
                                version, script, loop.calls, <<>>),
              graphs |-> <<>>]
        ELSE IF absent /\ ub = "crash"
        THEN [result |-> Result("compileWS", "crash", "", version, script, loop.calls, <<>>),
              graphs |-> <<>>]
        ELSE IF initPluginGraph.thrown
        THEN [result |-> Result("compileWS", "error", initPluginGraph.error, version,
                                script, loop.calls, h.attempts),
              graphs |-> <<>>]
        ELSE IF mainPluginGraph.thrown
        THEN [result |-> Result("compileWS", "error", mainPluginGraph.error, version,
                                script, loop.calls, h.attempts),
              graphs |-> <<>>]
        ELSE [result |-> Result("compileWS", "ok", "", version, script, loop.calls,
                                h.attempts),
              graphs |-> <<initPluginGraph.g, mainPluginGraph.g>>]

\* the default case of the switch, were it to fall through to an empty result
DefaultCase_silent(version, script) ==
    [result |-> Result("compileWS", "ok", "", version, script, <<>>, <<>>),
     graphs |-> <<>>]

\* the default case of the switch: OPENVINO_THROW before any compiler call
DefaultCase(version, script) ==
    [result |-> Result("compileWS", "error", "Invalid SEPARATE_WEIGHTS_VERSION", version,
                       script, <<>>, <<>>),
     graphs |-> <<>>]

\* PluginCompilerAdapter::compileWS; version is SEPARATE_WEIGHTS_VERSION
CompileWS(version, script, failing, cfg, drv, ub) ==
    LET done == IF version = 1
                THEN CompileWS_v1(script, adapter.ext, failing, cfg, drv, ub)
                ELSE IF version \in {2, 3}
                THEN CompileWS_v23(version, script, adapter.ext, failing, cfg, drv, ub)
                ELSE DefaultCase(version, script)
    IN
    /\ AdapterIdle
    /\ callResult' = done.result
    /\ graphs' = done.graphs
    /\ callEnv' = AdapterCall(cfg, drv)
    /\ UNCHANGED <<adapter, graphOp, ostream>>

GraphOp(op, k, outcome, error, result, driverHandle) ==
    [op |-> op, graph |-> k, outcome |-> outcome, error |-> error, result |-> result,
     driverHandle |-> driverHandle]

\* PluginGraph::set_argument_value on the k-th artifact the call returned;
\* driverHandle is the handle setGraphArgumentValue is called with (-1: not called)
SetArgumentValue(k, argi) ==
    /\ k \in 1..Len(graphs)
    /\ graphOp' =
         IF ~graphs[k].ext
         THEN GraphOp("set_argument_value", k, "error",
                      "Zero compiler adapter wasn't initialized", argi, -1)
         ELSE IF graphs[k].handle = NullHandle
         THEN GraphOp("set_argument_value", k, "error", "driver", argi, graphs[k].handle)
         ELSE GraphOp("set_argument_value", k, "ok", "", argi, graphs[k].handle)
    /\ UNCHANGED <<adapter, callResult, callEnv, graphs, ostream>>

\* PluginGraph::export_blob on the k-th artifact; streamOk: the stream accepts
\* the write
ExportBlob(k, streamOk) ==
    /\ k \in 1..Len(graphs)
    /\ graphOp' = IF streamOk
                   THEN GraphOp("export_blob", k, "ok", "", Len(graphs[k].blob), -1)
                   ELSE GraphOp("export_blob", k, "ok", "Write blob to stream failed", 0, -1)
    /\ UNCHANGED <<adapter, callResult, callEnv, graphs, ostream>>

(***************************************************************************)
(* The life of an artifact after the adapter returned it: initialize() and *)
(* the destructor.                                                         *)
(***************************************************************************)
\* config and driver answers an explicit initialize() is explored with: batch
\* size computed locally, batch size left to the compiler, no batch size in the
\* metadata, and a driver whose pfnGetArgumentProperties3 fails on argument 1
InitializeEnvs ==
    {[cfg |-> Config(TRUE, FALSE, FALSE, TRUE), drv |-> Driver(TRUE, 3, 2, -1, TRUE, 2)],
     [cfg |-> Config(TRUE, FALSE, TRUE, TRUE), drv |-> Driver(TRUE, 3, 2, -1, TRUE, 2)],
     [cfg |-> Config(TRUE, FALSE, FALSE, FALSE), drv |-> Driver(TRUE, 3, 2, -1, TRUE, -1)],
     [cfg |-> Config(TRUE, FALSE, FALSE, FALSE), drv |-> Driver(TRUE, 3, 2, 1, TRUE, 2)],
     [cfg |-> Config(TRUE, FALSE, FALSE, TRUE), drv |-> Driver(FALSE, 3, 2, -1, TRUE, 2)]}

\* no artifact has been destroyed
GraphsAlive == graphOp.op # "destroy"

\* initialize() calls made so far
InitializeCalls == IF graphOp.op = "initialize" THEN graphOp.calls ELSE 0

\* PluginGraph::initialize called on the k-th artifact; before is the artifact
\* as the call found it
Initialize(k, cfg, drv) ==
    LET done == initialize(graphs[k], cfg, drv)
    IN
    /\ k \in 1..Len(graphs)
    /\ GraphsAlive
    /\ InitializeCalls < MaxInitialize
    /\ graphs' = [graphs EXCEPT ![k] = done.g]
    /\ graphOp' = [op |-> "initialize", graph |-> k,
                   outcome |-> IF done.thrown THEN "error" ELSE "ok",
                   error |-> done.error, result |-> 0, driverHandle |-> graphs[k].handle,
                   cfg |-> cfg, drv |-> drv, calls |-> InitializeCalls + 1,
                   before |-> graphs[k]]
    /\ UNCHANGED <<adapter, callResult, callEnv, ostream>>

\* the local handle after destroyGraph, were it cleared whatever the driver says
HandleAfterDestroy_always(handle, destroyOk) == NullHandle

\* if (ZE_RESULT_SUCCESS == result) _handle = nullptr
HandleAfterDestroy(handle, destroyOk) == IF destroyOk THEN NullHandle ELSE handle

\* the statements of ~PluginGraph in the order they run on artifact g
DestroySteps(g, destroyOk) ==
    (IF g.handle # NullHandle
     THEN <<"destroyGraph">>
              \o (IF HandleAfterDestroy(g.handle, destroyOk) = NullHandle
                  THEN <<"clear_handle">> ELSE <<>>)
     ELSE <<>>)
    \o (IF g.last_submitted_event # 0 THEN <<"clear_events">> ELSE <<>>)
    \o (IF g.command_queue THEN <<"reset_queue">> ELSE <<>>)

\* PluginGraph::~PluginGraph on the k-th artifact; destroyOk: destroyGraph
\* returns ZE_RESULT_SUCCESS
Destroy(k, destroyOk) ==
    LET g == graphs[k]
    IN
    /\ k \in 1..Len(graphs)
    /\ GraphsAlive
    /\ graphs' = [graphs EXCEPT ![k] =
                     [g EXCEPT !.handle = IF g.handle # NullHandle
                                          THEN HandleAfterDestroy(g.handle, destroyOk)
                                          ELSE g.handle,
                               !.last_submitted_event = 0,
                               !.command_queue = FALSE]]
    /\ graphOp' = [op |-> "destroy", graph |-> k, outcome |-> "ok", error |-> "",
                   result |-> 0,
                   driverHandle |-> IF g.handle # NullHandle THEN g.handle ELSE -1,
                   destroyOk |-> destroyOk, steps |-> DestroySteps(g, destroyOk),
                   before |-> g]
    /\ UNCHANGED <<adapter, callResult, callEnv, ostream>>

(***************************************************************************)
(* The export framing of PluginGraph: custom_export and                    *)
(* custom_export_split_init write to a std::ostream, modelled as the bytes *)
(* written so far and the failbit.                                         *)
(***************************************************************************)
\* character codes: the digits '0'..'9' are 48..57, ':' is 58
Char0 == 48
CharColon == 58
\* the bytes of the exported contents: the digit '1' and the letter 'x'
Bytes == {49, 120}
ByteStrings == UNION {[1..n -> Bytes] : n \in 0..MaxBlobLen}
\* contents of at most one byte
ShortStrings == {<<>>} \cup {<<b>> : b \in Bytes}
InitBlobLists == UNION {[1..n -> ShortStrings] : n \in 0..MaxInits}

NewStream == [bytes |-> <<>>, fail |-> FALSE]

\* the characters operator<< formats an unsigned integer with (base 10)
RECURSIVE Decimal(_)
Decimal(n) ==
    IF n < 10 THEN <<Char0 + n>> ELSE Append(Decimal(n \div 10), Char0 + (n % 10))

\* stream << uint32_t: formatted output, nothing is written once the stream failed
PutUint32(st, n) ==
    IF st.fail THEN st ELSE [st EXCEPT !.bytes = @ \o Decimal(n)]

\* stream << content.rdbuf(): inserts the content; sets failbit when no
\* character was inserted
PutRdbuf(st, content) ==
    IF st.fail THEN st
    ELSE IF content = <<>> THEN [st EXCEPT !.fail = TRUE]
    ELSE [st EXCEPT !.bytes = @ \o content]

\* stream.write(ptr, size)
StreamWrite(st, blob) ==
    IF st.fail THEN st ELSE [st EXCEPT !.bytes = @ \o blob]

\* stream << ':'
PutChar(st, ch) ==
    IF st.fail THEN st ELSE [st EXCEPT !.bytes = Append(@, ch)]

\* xmlSize, xml, binSize, bin, mainBlobSize, main blob: the common head of both
\* exports
WriteHead(st, xmlBytes, binBytes, blob) ==
    LET s1 == PutUint32(st, Len(xmlBytes))
        s2 == PutRdbuf(s1, xmlBytes)
        s3 == PutUint32(s2, Len(binBytes))
        s4 == PutRdbuf(s3, binBytes)
        s5 == PutUint32(s4, Len(blob))
    IN  StreamWrite(s5, blob)

\* the init count written without the ':' after it
PutInitCount_noDelimiter(st, initCount) == PutUint32(st, initCount)

\* stream << initCount; stream << ':'
PutInitCount(st, initCount) == PutChar(PutUint32(st, initCount), CharColon)

\* the loop of custom_export_split_init over initGraphs from element k on
RECURSIVE WriteInits(_, _, _)
WriteInits(st, initBlobs, k) ==
    IF k > Len(initBlobs) THEN st
    ELSE LET written == StreamWrite(PutUint32(st, Len(initBlobs[k])), initBlobs[k])
         IN  IF written.fail THEN written
             ELSE WriteInits(written, initBlobs, k + 1)

Exported(op, xmlBytes, binBytes, blob, initBlobs, st) ==
    [op |-> op, xml |-> xmlBytes, bin |-> binBytes, main |-> blob, inits |-> initBlobs,
     bytes |-> st.bytes, fail |-> st.fail]

ExportIdle == ostream.op = "none"

\* PluginGraph::custom_export; xmlBytes and binBytes are what ov::pass::Serialize
\* produced for initModel, blob is _blobPtr, initBlob is initGraph->get_blob()
CustomExport(xmlBytes, binBytes, blob, initBlob) ==
    LET head == WriteHead(NewStream, xmlBytes, binBytes, blob)
        done == StreamWrite(PutUint32(head, Len(initBlob)), initBlob)
    IN
    /\ ExportIdle
    /\ ostream' = Exported("custom_export", xmlBytes, binBytes, blob, <<initBlob>>, done)
    /\ UNCHANGED <<adapter, callResult, callEnv, graphs, graphOp>>

\* PluginGraph::custom_export_split_init
CustomExportSplitInit(xmlBytes, binBytes, blob, initBlobs) ==
    LET head == WriteHead(NewStream, xmlBytes, binBytes, blob)
        counted == PutInitCount(head, Len(initBlobs))
        done == WriteInits(counted, initBlobs, 1)
    IN
    /\ ExportIdle
    /\ ostream' = Exported("custom_export_split_init", xmlBytes, binBytes, blob,
                           initBlobs, done)
    /\ UNCHANGED <<adapter, callResult, callEnv, graphs, graphOp>>

(***************************************************************************)
(* Spec: the life of one Pipeline under every order of push, pull, reset   *)
(* and updateCommandList calls (the caller serializes them), the device    *)
(* completing submitted lists in any order.  The tensors are the largest    *)
(* ones and the output buffer is the one updated; BindSpec varies them.    *)
(***************************************************************************)
Init == PipeInit /\ GraphInit

PipeNext ==
    \/ \E n \in 0..MaxLists, prof \in BOOLEAN, withFences \in BOOLEAN, mclVersion \in 0..1 :
          Construct(n, <<TensorData(100, MaxSize), TensorData(200, MaxSize - 1)>>,
                    <<TensorData(300, MaxSize)>>, prof, withFences, mclVersion, FALSE)
    \/ Push
    \/ DeviceStep
    \/ PullBegin
    \/ PullStep
    \/ PullReturn
    \/ Reset
    \/ UpdateCommandList(TensorData(400, MaxSize), OutputDescriptors[1])

Next == PipeNext /\ UNCHANGED graphVars

Spec == Init /\ [][Next]_vars

\* the device finishes work it was given, and a host wait returns once signaled
LiveSpec ==
    /\ Spec
    /\ WF_vars(DeviceStep /\ UNCHANGED graphVars)
    /\ WF_vars(PullStep /\ UNCHANGED graphVars)
    /\ WF_vars(PullReturn /\ UNCHANGED graphVars)

(***************************************************************************)
(* SeqSpec: the pipeline built with or without RUN_INFERENCES_SEQUENTIALLY *)
(* (no profiling, no update).                                              *)
(***************************************************************************)
SeqActions ==
    \/ \E n \in 0..MaxLists, withFences \in BOOLEAN, runSequentially \in BOOLEAN :
          Construct(n, <<TensorData(100, MaxSize), TensorData(200, MaxSize - 1)>>,
                    <<TensorData(300, MaxSize)>>, FALSE, withFences, 0, runSequentially)
    \/ Push
    \/ DeviceStep
    \/ PullBegin
    \/ PullStep
    \/ PullReturn
    \/ Reset

SeqNext == SeqActions /\ UNCHANGED graphVars

SeqSpec == Init /\ [][SeqNext]_vars

(***************************************************************************)
(* BindSpec: construction and updateCommandList over all tensors, sizes    *)
(* and argument indices.                                                   *)
(***************************************************************************)
BindActions ==
    \/ \E n \in 0..MaxLists, inT \in InputTensors, outT \in OutputTensors,
          prof \in BOOLEAN, withFences \in BOOLEAN, mclVersion \in 0..1 :
          Construct(n, inT, outT, prof, withFences, mclVersion, FALSE)
    \/ \E data \in UpdateTensors, index \in ArgIndices : UpdateCommandList(data, index)

BindNext == BindActions /\ UNCHANGED graphVars

BindSpec == Init /\ [][BindNext]_vars

(***************************************************************************)
(* SliceSpec: the slices bound at construction and by updateCommandList,  *)
(* for tensors of every size a size_t can hold.                            *)
(***************************************************************************)
SliceActions ==
    \/ \E n \in 0..MaxSliceLists, s \in WideSizes :
          Construct(n, <<TensorData(100, s), TensorData(200, s)>>,
                    <<TensorData(300, s)>>, FALSE, FALSE, 1, FALSE)
    \/ \E s \in WideSizes : UpdateCommandList(TensorData(400, s), OutputDescriptors[1])

SliceNext == SliceActions /\ UNCHANGED graphVars

SliceSpec == Init /\ [][SliceNext]_vars

(***************************************************************************)
(* GraphSpec: the compiler adapter and the artifacts it returns.           *)
(***************************************************************************)
\* the sets of blob sizes for which getGraphHandle fails
Failing == SUBSET (0..MaxSegments)

GraphActions ==
    \/ \E compilerType \in {"DRIVER", "MLIR", "OTHER"}, backend \in {"none", "LEVEL0", "OTHER"} :
          GetCompiler(compilerType, backend)
    \/ /\ AdapterIdle
       /\ \E name \in SegmentNames, k \in 0..1, compilerOk \in BOOLEAN, failing \in Failing,
             env \in AdapterEnvs :
             Compile(name, k, compilerOk, failing, env.cfg, env.drv)
    \/ /\ AdapterIdle
       /\ \E name \in SegmentNames, k \in 0..1, compilerOk \in BOOLEAN, failing \in Failing,
             env \in AdapterEnvs :
             Parse(name, k, compilerOk, failing, env.cfg, env.drv)
    \/ /\ AdapterIdle
       /\ \E version \in 0..4, script \in Scripts, failing \in Failing,
             env \in AdapterEnvs, ub \in UBOutcomes :
             CompileWS(version, script, failing, env.cfg, env.drv, ub)
    \/ \E k \in 1..MaxSegments, argi \in 0..1 : SetArgumentValue(k, argi)
    \/ \E k \in 1..MaxSegments, streamOk \in BOOLEAN : ExportBlob(k, streamOk)

GraphNext == GraphActions /\ UNCHANGED pipeVars

GraphSpec == Init /\ [][GraphNext]_vars

(***************************************************************************)
(* LifeSpec: one artifact from compile() or parse(), initialized and       *)
(* destroyed.                                                              *)
(***************************************************************************)
LifeActions ==
    \/ \E compilerType \in {"DRIVER", "MLIR", "OTHER"}, backend \in {"none", "LEVEL0", "OTHER"} :
          GetCompiler(compilerType, backend)
    \/ /\ AdapterIdle
       /\ \E name \in SegmentNames, k \in 0..1, compilerOk \in BOOLEAN, failing \in Failing,
             env \in AdapterEnvs :
             Compile(name, k, compilerOk, failing, env.cfg, env.drv)
    \/ /\ AdapterIdle
       /\ \E name \in SegmentNames, k \in 0..1, compilerOk \in BOOLEAN, failing \in Failing,
             env \in AdapterEnvs :
             Parse(name, k, compilerOk, failing, env.cfg, env.drv)
    \/ \E k \in 1..MaxSegments, env \in InitializeEnvs : Initialize(k, env.cfg, env.drv)
    \/ \E k \in 1..MaxSegments, destroyOk \in BOOLEAN : Destroy(k, destroyOk)

LifeNext == LifeActions /\ UNCHANGED pipeVars

LifeSpec == Init /\ [][LifeNext]_vars

(***************************************************************************)
(* ExportSpec: one custom export of given contents.                        *)
(***************************************************************************)
ExportActions ==
    \/ /\ ExportIdle
       /\ \E xmlBytes \in ByteStrings, binBytes \in ShortStrings, blob \in ByteStrings,
             initBlob \in ByteStrings :
             CustomExport(xmlBytes, binBytes, blob, initBlob)
    \/ /\ ExportIdle
       /\ \E xmlBytes \in ByteStrings, binBytes \in ShortStrings, blob \in ByteStrings,
             initBlobs \in InitBlobLists :
             CustomExportSplitInit(xmlBytes, binBytes, blob, initBlobs)

ExportNext == ExportActions /\ UNCHANGED pipeVars

ExportSpec == Init /\ [][ExportNext]_vars

(***************************************************************************)
(* Claims about the Pipeline.                                              *)
(***************************************************************************)
N == numberOfCommandLists

\* C1: a Pipeline constructed with numberOfCommandLists = N holds exactly N
\* command lists, N events and N fences, and list i binds every input and
\* output argument to base + (i * size) / N of its tensor.
C1_ConstructedCountsAndBindings ==
    (constructed /\ updates = 0) =>
        /\ DOMAIN command_lists = 0..(N - 1)
        /\ DOMAIN events = 0..(N - 1)
        /\ DOMAIN fences = 0..(N - 1)
        /\ Cardinality(DOMAIN command_lists) = N
        /\ Cardinality(DOMAIN events) = N
        /\ Cardinality(DOMAIN fences) = N
        /\ \A i \in 0..(N - 1) :
              /\ \A k \in DOMAIN InputDescriptors :
                    command_lists[i].args[InputDescriptors[k]] =
                        inputTensorsData[k].mem + (i * inputTensorsData[k].size) \div N
              /\ \A k \in DOMAIN OutputDescriptors :
                    command_lists[i].args[OutputDescriptors[k]] =
                        outputTensorsData[k].mem + (i * outputTensorsData[k].size) \div N

\* C1 witness: a Pipeline of at least two lists whose second list binds the
\* second input and the output strictly inside their tensors.
C1_Witness ==
    /\ constructed /\ updates = 0 /\ N >= 2
    /\ command_lists[1].args[InputDescriptors[2]] > inputTensorsData[2].mem
    /\ command_lists[1].args[OutputDescriptors[1]] > outputTensorsData[1].mem
    /\ inputTensorsData[1].size # inputTensorsData[2].size

C3_CycleRepeatable ==
    /\ (pc = "pull" /\ cycle = 3) ~> (pc = "idle")
    /\ [][(constructed /\ updates' = updates) =>
             /\ command_lists' = command_lists
             /\ DOMAIN events' = DOMAIN events
             /\ DOMAIN fences' = DOMAIN fences
             /\ event_pool' = event_pool
             /\ numberOfCommandLists' = numberOfCommandLists]_vars

\* C3 witness: the pull() of a reset(); push(); pull() cycle has returned, on a
\* Pipeline of at least two lists whose primitives had been signaled before.
C3_Witness ==
    /\ constructed /\ N >= 2 /\ pc = "idle" /\ cycle = 3
    /\ waited = 0..(N - 1)
    /\ ~pushClean

\* C4: an updateCommandList(data, argIndex) call that returns has changed, in
\* every list i, only the binding of argIndex, to data.mem + (i * data.size) / N,
\* and leaves every list closed.
C4_UpdateChangesOnlyArgIndex ==
    [][(updates' # updates /\ lastUpdate'.outcome = "patched") =>
          /\ DOMAIN command_lists' = DOMAIN command_lists
          /\ \A i \in DOMAIN command_lists :
                /\ command_lists'[i].args =
                       [command_lists[i].args EXCEPT ![lastUpdate'.index] =
                           lastUpdate'.data.mem + (i * lastUpdate'.data.size) \div N]
                /\ command_lists'[i].instrs = command_lists[i].instrs
                /\ command_lists'[i].closed]_vars

\* C4 witness: an update of a mutable Pipeline of at least two lists has given
\* the second list an address strictly inside the new tensor.
C4_Witness ==
    /\ constructed /\ N >= 2 /\ updates > 0 /\ lastUpdate.outcome = "patched"
    /\ command_lists[1].mutable
    /\ command_lists[1].args[lastUpdate.index] > lastUpdate.data.mem
    /\ command_lists[0].args[lastUpdate.index] = lastUpdate.data.mem
    /\ command_lists[1].closed

\* C5 (as stated): updateCommandList on a Pipeline whose lists were created
\* without mutable-command-list support is rejected with an error and patches
\* no binding.
C5_UpdateRejectedWithoutMutableSupport ==
    [][(updates' # updates /\ \E i \in DOMAIN command_lists : ~command_lists[i].mutable) =>
          /\ lastUpdate'.outcome # "patched"
          /\ command_lists' = command_lists]_vars

(***************************************************************************)
(* Claims about the compiler adapter and its artifacts.                    *)
(***************************************************************************)
\* the failures PluginGraph::initialize lets through
InitializeErrors == {"pfnGetProperties", "pfnGetArgumentProperties3", "initializeGraph"}

\* C6: compile() never fails because of handle realization. With a driver
\* context, when getGraphHandle fails compile still returns one artifact that
\* holds the compiled bytes and the metadata and a null handle; when it succeeds
\* the returned artifact holds the handle getGraphHandle gave.
C6_CompileBestEffortHandle ==
    callResult.op = "compile" =>
        LET a == callResult.attempts
        IN  /\ callResult.error # "getGraphHandle"
            /\ (Len(a) = 1 /\ ~a[1].ok) =>
                 /\ callResult.outcome = "ok"
                 /\ Len(graphs) = 1
                 /\ graphs[1].handle = NullHandle
                 /\ graphs[1].blob = a[1].blob
                 /\ graphs[1].name = callResult.script[1]
            /\ (Len(a) = 1 /\ a[1].ok /\ callResult.outcome = "ok") =>
                 /\ Len(graphs) = 1
                 /\ graphs[1].handle = HandleOf(a[1].blob)
                 /\ graphs[1].handle # NullHandle
                 /\ graphs[1].blob = a[1].blob
                 /\ graphs[1].name = callResult.script[1]

C6_Witness ==
    /\ callResult.op = "compile"
    /\ adapter.ext
    /\ Len(callResult.attempts) = 1
    /\ ~callResult.attempts[1].ok
    /\ callResult.outcome = "ok"
    /\ Len(graphs) = 1
    /\ graphs[1].blob # <<>>

\* C7: parse() is strict. With a driver context, when getGraphHandle fails on
\* the precompiled bytes the failure reaches the caller and no artifact is
\* returned.
C7_ParseStrict ==
    (/\ callResult.op = "parse"
     /\ Len(callResult.attempts) = 1
     /\ ~callResult.attempts[1].ok) =>
        /\ callResult.outcome = "error"
        /\ callResult.error = "getGraphHandle"
        /\ graphs = <<>>

C7_Witness ==
    /\ callResult.op = "parse"
    /\ adapter.ext
    /\ Len(callResult.attempts) = 1
    /\ ~callResult.attempts[1].ok
    /\ callResult.outcome = "error"

\* C8: on an artifact with a null handle (driver context present or absent),
\* export_blob into a sound stream returns the blob size, and set_argument_value
\* fails with the error the artifact itself raises and the driver is not called.
C8_NullHandleArtifactIsExportOnly ==
    (/\ graphOp.graph \in 1..Len(graphs)
     /\ graphs[graphOp.graph].handle = NullHandle) =>
        /\ (graphOp.op = "export_blob" /\ graphOp.error = "") =>
             /\ graphOp.outcome = "ok"
             /\ graphOp.result = Len(graphs[graphOp.graph].blob)
        /\ graphOp.op = "set_argument_value" =>
             /\ graphOp.outcome = "error"
             /\ graphOp.error = "Zero compiler adapter wasn't initialized"
             /\ graphOp.driverHandle = -1

\* C9: split-weights v1. When the last segment of the returned list does not
\* start with "main" compileWS fails with the fatal assertion and no artifact;
\* otherwise it returns one artifact per segment in the same order (unless the
\* initialisation of an artifact fails in the driver). An empty list has no
\* last segment: the call either raises the assertion or returns no artifact.
C9_V1MainLastOrFatal ==
    (callResult.op = "compileWS" /\ callResult.version = 1) =>
        LET s == callResult.script
        IN  IF Len(s) = 0
            THEN /\ callResult.outcome \in {"ok", "error"}
                 /\ graphs = <<>>
            ELSE IF isMain(s[Len(s)])
            THEN \/ /\ callResult.outcome = "ok"
                    /\ Len(graphs) = Len(s)
                    /\ \A k \in 1..Len(s) :
                         graphs[k].name = s[k] /\ graphs[k].blob = BlobOf(k)
                 \/ /\ callResult.outcome = "error"
                    /\ callResult.error \in InitializeErrors
                    /\ graphs = <<>>
            ELSE /\ callResult.outcome = "error"
                 /\ callResult.error = "Unexpected network name for main"
                 /\ graphs = <<>>

\* the position of the first segment of the script that is not an init segment
\* (one past the end if there is none)
FirstNonInit(script) ==
    LET others == {k \in 1..Len(script) : ~isInit(script[k])}
    IN  IF others = {} THEN Len(script) + 1
        ELSE CHOOSE k \in others : \A j \in others : k <= j

\* C10: split-weights v2 and v3. The compiler is not called again once it has
\* returned a segment that starts with "main"; when init segments came before
\* it and the call returns, the result is [first init, main]; a segment that
\* starts with neither "init" nor "main" ends the call with the fatal assertion
\* and no artifact.
C10_V23StopAtMainKeepFirstInit ==
    (callResult.op = "compileWS" /\ callResult.version \in {2, 3}) =>
        LET s == callResult.script
            stop == FirstNonInit(s)
        IN  /\ Len(callResult.calls) = stop
            /\ (stop <= Len(s) /\ stop > 1 /\ isMain(s[stop])) =>
                 \/ /\ callResult.outcome = "ok"
                    /\ Len(graphs) = 2
                    /\ graphs[1].name = s[1] /\ graphs[1].blob = BlobOf(1)
                    /\ graphs[2].name = s[stop] /\ graphs[2].blob = BlobOf(stop)
                 \/ /\ callResult.outcome = "error"
                    /\ callResult.error \in InitializeErrors
                    /\ graphs = <<>>
            /\ (stop <= Len(s) /\ ~isMain(s[stop])) =>
                 /\ callResult.outcome = "error"
                 /\ callResult.error = "Unexpected network name"
                 /\ graphs = <<>>

C10_Witness ==
    /\ callResult.op = "compileWS"
    /\ callResult.version \in {2, 3}
    /\ callResult.outcome = "ok"
    /\ Len(callResult.script) = 3
    /\ isInit(callResult.script[1]) /\ isInit(callResult.script[2])
    /\ isMain(callResult.script[3])
    /\ Len(callResult.calls) = 3
    /\ Len(graphs) = 2

\* C11: for versions 1, 2 and 3 and every segment sequence of the compiler, a
\* returned list has exactly one main-named artifact, which is last, and only
\* init-named artifacts before it; a sequence that starts with main (no init
\* segment before it) gives such a result.
C11_ResultIsInitsThenOneMain ==
    (callResult.op = "compileWS" /\ callResult.version \in {1, 2, 3}) =>
        LET s == callResult.script
        IN  /\ callResult.outcome = "ok" =>
                 /\ Len(graphs) >= 1
                 /\ isMain(graphs[Len(graphs)].name)
                 /\ \A k \in 1..(Len(graphs) - 1) : isInit(graphs[k].name)
            /\ (Len(s) >= 1 /\ isMain(s[1]) /\ (callResult.version = 1 => Len(s) = 1)) =>
                 \/ callResult.outcome = "ok"
                 \/ callResult.outcome = "error" /\ callResult.error \in InitializeErrors

\* C12: with a driver context, compileWS attempts the realization of every
\* segment it returns, each on its own: the artifact of a segment holds the
\* handle of its own attempt, or a null handle when its own attempt failed.
C12_EverySegmentRealizedOnItsOwn ==
    (/\ callResult.op = "compileWS"
     /\ callResult.version \in {1, 2, 3}
     /\ callResult.outcome = "ok"
     /\ adapter.ext) =>
        /\ Len(callResult.attempts) = Len(graphs)
        /\ \A k \in 1..Len(graphs) :
             /\ callResult.attempts[k].blob = graphs[k].blob
             /\ graphs[k].handle = IF callResult.attempts[k].ok
                                   THEN HandleOf(graphs[k].blob) ELSE NullHandle

\* C13: split-weights v3. Call number k (k = 0, 1, ...) gets index k; the first
\* call gets the caller's model; every later call follows an init segment and
\* gets a clone of the original model that no earlier call was given.
C13_V3IndexAndFreshClone ==
    (callResult.op = "compileWS" /\ callResult.version = 3) =>
        \A c \in 1..Len(callResult.calls) :
            /\ callResult.calls[c].index = c - 1
            /\ c = 1 => callResult.calls[c].model = 0
            /\ c > 1 =>
                 /\ isInit(callResult.script[c - 1])
                 /\ callResult.calls[c].model # 0
                 /\ ~callResult.calls[c].mutated
                 /\ \A b \in 1..(c - 1) :
                        callResult.calls[b].model # callResult.calls[c].model

C13_Witness ==
    /\ callResult.op = "compileWS"
    /\ callResult.version = 3
    /\ Len(callResult.calls) = 3
    /\ isInit(callResult.script[1]) /\ isInit(callResult.script[2])
    /\ callResult.calls[3].index = 2
    /\ callResult.calls[3].model = 2

\* C14: compileWS with a SEPARATE_WEIGHTS_VERSION other than 1, 2, 3 fails with
\* the configuration error, calls the compiler not once and returns no artifact.
C14_InvalidVersionIsFatal ==
    (callResult.op = "compileWS" /\ callResult.version \notin {1, 2, 3}) =>
        /\ callResult.outcome = "error"
        /\ callResult.error = "Invalid SEPARATE_WEIGHTS_VERSION"
        /\ callResult.calls = <<>>
        /\ callResult.attempts = <<>>
        /\ graphs = <<>>

C14_Witness ==
    /\ callResult.op = "compileWS"
    /\ callResult.version \in {0, 4}
    /\ callResult.script # <<>>
    /\ callResult.outcome = "error"

(***************************************************************************)
(* Claims about the export framing.                                        *)
(***************************************************************************)
\* The documented layout: every size is a uint32 of 4 bytes (least significant
\* byte first) in front of its bytes. A size field read at pos.
ReadBinarySize(bytes, pos) ==
    IF pos + 3 > Len(bytes) THEN [ok |-> FALSE, value |-> 0, next |-> pos]
    ELSE [ok |-> TRUE,
          value |-> bytes[pos] + 256 * bytes[pos + 1] + 65536 * bytes[pos + 2]
                        + 16777216 * bytes[pos + 3],
          next |-> pos + 4]

IsDigit(b) == b \in Char0..(Char0 + 9)

\* the digits from pos on, as stream >> uint32_t extracts them; a value beyond
\* the length of the stream is not grown any further
RECURSIVE ReadDigits(_, _, _)
ReadDigits(bytes, pos, acc) ==
    IF pos > Len(bytes) \/ ~IsDigit(bytes[pos]) THEN [value |-> acc, next |-> pos]
    ELSE ReadDigits(bytes, pos + 1,
                    IF acc > Len(bytes) THEN acc ELSE acc * 10 + (bytes[pos] - Char0))

\* the same layout with every size read back as formatted text
ReadTextSize(bytes, pos) ==
    IF pos > Len(bytes) \/ ~IsDigit(bytes[pos]) THEN [ok |-> FALSE, value |-> 0, next |-> pos]
    ELSE [ok |-> TRUE, value |-> ReadDigits(bytes, pos, 0).value,
          next |-> ReadDigits(bytes, pos, 0).next]

ReadSize(kind, bytes, pos) ==
    IF kind = "binary" THEN ReadBinarySize(bytes, pos) ELSE ReadTextSize(bytes, pos)

\* [size][bytes] read at pos
ReadBlock(kind, bytes, pos) ==
    LET sz == ReadSize(kind, bytes, pos)
    IN  IF ~sz.ok \/ sz.value > Len(bytes) - sz.next + 1
        THEN [ok |-> FALSE, data |-> <<>>, next |-> pos]
        ELSE [ok |-> TRUE, data |-> SubSeq(bytes, sz.next, sz.next + sz.value - 1),
              next |-> sz.next + sz.value]

\* count blocks read from pos on
RECURSIVE ReadBlocks(_, _, _, _, _)
ReadBlocks(kind, bytes, pos, count, acc) ==
    IF count = 0 THEN [ok |-> TRUE, data |-> acc, next |-> pos]
    ELSE LET b == ReadBlock(kind, bytes, pos)
         IN  IF ~b.ok THEN [ok |-> FALSE, data |-> acc, next |-> pos]
             ELSE ReadBlocks(kind, bytes, b.next, count - 1, Append(acc, b.data))

\* the init part: one block (custom_export), or count, ':' and count blocks
ReadInitPart(kind, op, bytes, pos) ==
    IF op = "custom_export" THEN ReadBlocks(kind, bytes, pos, 1, <<>>)
    ELSE LET count == ReadSize(kind, bytes, pos)
         IN  IF ~count.ok \/ count.next > Len(bytes) \/ bytes[count.next] # CharColon
             THEN [ok |-> FALSE, data |-> <<>>, next |-> pos]
             ELSE ReadBlocks(kind, bytes, count.next + 1, count.value, <<>>)

\* the whole stream read back
ReadExport(kind, op, bytes) ==
    LET head == ReadBlocks(kind, bytes, 1, 3, <<>>)
        tail == ReadInitPart(kind, op, bytes, head.next)
    IN  IF ~head.ok \/ ~tail.ok \/ tail.next # Len(bytes) + 1
        THEN [ok |-> FALSE, xml |-> <<>>, bin |-> <<>>, main |-> <<>>, inits |-> <<>>]
        ELSE [ok |-> TRUE, xml |-> head.data[1], bin |-> head.data[2],
              main |-> head.data[3], inits |-> tail.data]

RoundTrips(kind) ==
    LET back == ReadExport(kind, ostream.op, ostream.bytes)
    IN  /\ back.ok
        /\ back.xml = ostream.xml
        /\ back.bin = ostream.bin
        /\ back.main = ostream.main
        /\ back.inits = ostream.inits

\* C15: the stream custom_export / custom_export_split_init wrote, read back
\* with the length-prefixed layout (sizes as 4-byte integers, or else as the
\* text the stream formatted them to), gives the original xml, bin, main blob
\* and init blobs, whatever their bytes and lengths.
C15_ExportRoundTrip ==
    ostream.op # "none" => RoundTrips("binary") \/ RoundTrips("text")

\* size and bytes of each init blob from element k on
RECURSIVE InitFields(_, _)
InitFields(initBlobs, k) ==
    IF k > Len(initBlobs) THEN <<>>
    ELSE Decimal(Len(initBlobs[k])) \o initBlobs[k] \o InitFields(initBlobs, k + 1)

\* the fields of the split-init export in their order
SplitInitLayout ==
    Decimal(Len(ostream.xml)) \o ostream.xml
        \o Decimal(Len(ostream.bin)) \o ostream.bin
        \o Decimal(Len(ostream.main)) \o ostream.main
        \o Decimal(Len(ostream.inits)) \o <<CharColon>>
        \o InitFields(ostream.inits, 1)

\* C16: custom_export_split_init writes xmlSize, xml, binSize, bin,
\* mainBlobSize, main blob, initCount, one ':' and then size and bytes of every
\* init graph in list order: what is in the stream is always a prefix of this
\* sequence, and the whole of it (initCount pairs after the ':') when the stream
\* did not fail.
C16_SplitInitFieldOrder ==
    ostream.op = "custom_export_split_init" =>
        /\ Len(ostream.bytes) <= Len(SplitInitLayout)
        /\ ostream.bytes = SubSeq(SplitInitLayout, 1, Len(ostream.bytes))
        /\ ~ostream.fail => ostream.bytes = SplitInitLayout

C16_Witness ==
    /\ ostream.op = "custom_export_split_init"
    /\ ~ostream.fail
    /\ Len(ostream.inits) = 2
    /\ ostream.inits[1] # ostream.inits[2]
    /\ ostream.bytes = SplitInitLayout

(***************************************************************************)
(* Claims about the life of an artifact.                                   *)
(***************************************************************************)
\* the position of a statement of the destructor in the order (a), (b), (c)
TeardownRank(step) ==
    CASE step = "destroyGraph" -> 1
      [] step = "clear_handle" -> 2
      [] step = "clear_events" -> 3
      [] step = "reset_queue" -> 4

\* C17: the destructor asks the driver to destroy the handle first and clears
\* the local handle only when the driver reports success, then releases the
\* last-submitted-event slots, then the command queue; slots and queue are
\* released also when the driver call fails and the handle stays set.
C17_TeardownOrder ==
    graphOp.op = "destroy" =>
        LET before == graphOp.before
            after == graphs[graphOp.graph]
            steps == graphOp.steps
        IN  /\ \A a, b \in 1..Len(steps) :
                   a < b => TeardownRank(steps[a]) < TeardownRank(steps[b])
            /\ before.handle # NullHandle =>
                   /\ steps[1] = "destroyGraph"
                   /\ graphOp.driverHandle = before.handle
            /\ before.handle = NullHandle =>
                   /\ \A a \in 1..Len(steps) : steps[a] # "destroyGraph"
                   /\ graphOp.driverHandle = -1
            /\ after.handle = IF graphOp.destroyOk THEN NullHandle ELSE before.handle
            /\ (\E a \in 1..Len(steps) : steps[a] = "clear_handle") <=>
                   (before.handle # NullHandle /\ graphOp.destroyOk)
            /\ (\E a \in 1..Len(steps) : steps[a] = "clear_events") <=>
                   before.last_submitted_event # 0
            /\ (\E a \in 1..Len(steps) : steps[a] = "reset_queue") <=> before.command_queue
            /\ after.last_submitted_event = 0
            /\ ~after.command_queue

C17_Witness ==
    /\ graphOp.op = "destroy"
    /\ ~graphOp.destroyOk
    /\ graphOp.before.handle # NullHandle
    /\ graphOp.before.last_submitted_event # 0
    /\ graphOp.before.command_queue
    /\ graphOp.steps = <<"destroyGraph", "clear_events", "reset_queue">>
    /\ graphs[graphOp.graph].handle = graphOp.before.handle

\* initialize() went past its early return and threw nothing
InitializeRan ==
    /\ graphOp.op = "initialize"
    /\ graphOp.outcome = "ok"
    /\ graphOp.before.ext
    /\ graphOp.before.handle # NullHandle

\* C18: an initialize() that runs on an artifact with BATCH_MODE = COMPILER
\* leaves an absent batch size absent; with any other batch mode it sets the
\* batch size to the value derived from the metadata.
C18_BatchSizeByBatchMode ==
    InitializeRan =>
        LET before == graphOp.before
            after == graphs[graphOp.graph]
        IN  /\ graphOp.cfg.BATCH_MODE_COMPILER => after.batch_size = before.batch_size
            /\ ~graphOp.cfg.BATCH_MODE_COMPILER =>
                   after.batch_size = get_batch_size(graphOp.drv)

C18_Witness ==
    /\ InitializeRan
    /\ graphOp.cfg.BATCH_MODE_COMPILER
    /\ get_batch_size(graphOp.drv) # -1
    /\ graphOp.before.batch_size = -1
    /\ graphs[graphOp.graph].batch_size = -1
    /\ graphs[graphOp.graph].graph_initialized

\* the elements of a sequence are pairwise different
NoDuplicates(seq) == \A a, b \in 1..Len(seq) : a # b => seq[a] # seq[b]

\* C20: after any sequence of initialize() calls that ran on an artifact, the
\* input and output descriptor lists are disjoint and together hold every
\* declared argument index exactly once.
C20_DescriptorsPartitionArguments ==
    InitializeRan =>
        LET after == graphs[graphOp.graph]
            all == after.input_descriptors \o after.output_descriptors
        IN  /\ NoDuplicates(all)
            /\ {all[a] : a \in 1..Len(all)} = 0..(graphOp.drv.numGraphArgs - 1)

(***************************************************************************)
(* Claim about the run-sequentially policy of the Pipeline.                *)
(***************************************************************************)
\* C19: with RUN_INFERENCES_SEQUENTIALLY, the execution of command list i + 1
\* of a push() waits for the completion of command list i: the device does not
\* complete list i + 1 while list i still has work to finish.
C19_SequentialCommandLists ==
    [][config.RUN_INFERENCES_SEQUENTIALLY =>
         \A i \in DOMAIN command_queue :
             (/\ i > 0
              /\ command_queue[i].cur > 0
              /\ command_queue'[i].cur = 0) =>
                 /\ command_queue[i - 1].cur = 0
                 /\ command_queue[i - 1].old = 0]_vars

\* ---------------------------------------------------------------------------
\* C21: initialize() called on an artifact that has a null handle or no driver
\* context returns at once without an error: the artifact is left exactly as
\* the call found it, with no descriptor, no command queue, no driver-side
\* initialization, no batch size and no event slot.
C21_InitializeNoOpWithoutHandleOrContext ==
    (/\ graphOp.op = "initialize"
     /\ (~graphOp.before.ext \/ graphOp.before.handle = NullHandle))
    => LET g == graphs[graphOp.graph]
       IN  /\ graphOp.outcome = "ok"
           /\ g = graphOp.before
           /\ g.input_descriptors = <<>>
           /\ g.output_descriptors = <<>>
           /\ ~g.command_queue
           /\ ~g.graph_initialized
           /\ g.batch_size = -1
           /\ g.last_submitted_event = 0

\* initialize() with the sequential policy has run on an export-only artifact of
\* an adapter that has a driver context
C21_Witness ==
    /\ graphOp.op = "initialize"
    /\ graphOp.before.ext
    /\ graphOp.before.handle = NullHandle
    /\ graphOp.cfg.RUN_INFERENCES_SEQUENTIALLY
    /\ graphOp.drv.propsOk
    /\ graphs[graphOp.graph] = graphOp.before

\* ---------------------------------------------------------------------------
\* C22: for every index i the constructor leaves command list i closed and
\* holding, in this order: (with profiling) a barrier and the infer-start
\* timestamp, the graph execution with every input and output argument bound
\* to the values of iteration i, (with profiling) a barrier and the infer-end
\* timestamp, (event-sync mode only) a barrier and the signal of event i. A
\* list recorded in fence-sync mode holds no event signal.
RecordedInstrs(i) ==
    (IF npu_profiling
     THEN <<Instr("appendBarrier", 0), Instr("appendNpuTimestamp", 0)>> ELSE <<>>)
    \o <<Instr("appendGraphExecute", 0)>>
    \o (IF npu_profiling
        THEN <<Instr("appendBarrier", 0), Instr("appendNpuTimestamp", 1)>> ELSE <<>>)
    \o (IF ~sync_output_with_fences
        THEN <<Instr("appendBarrier", 0), Instr("AppendSignalEvent", i)>> ELSE <<>>)

C22_RecordedSequencePerCommandList ==
    constructed =>
        \A i \in DOMAIN command_lists :
            /\ command_lists[i].instrs = RecordedInstrs(i)
            /\ command_lists[i].closed
            /\ updates = 0 =>
                   command_lists[i].args =
                       GraphArgsAfter(i, N, inputTensorsData, outputTensorsData)
            /\ sync_output_with_fences =>
                   \A j \in DOMAIN command_lists[i].instrs :
                       command_lists[i].instrs[j].op # "AppendSignalEvent"

\* two command lists recorded with profiling in event-sync mode: the second one
\* ends with the infer-end timestamp, a barrier and the signal of event 1
C22_Witness ==
    /\ constructed
    /\ N = 2
    /\ npu_profiling
    /\ ~sync_output_with_fences
    /\ Len(command_lists[1].instrs) = 7
    /\ command_lists[1].instrs[5] = Instr("appendNpuTimestamp", 1)
    /\ command_lists[1].instrs[7] = Instr("AppendSignalEvent", 1)
    /\ command_lists[1].closed

\* ---------------------------------------------------------------------------
\* a step in which push() hands at least one command list to the queue
PushStep ==
    /\ constructed
    /\ \E i \in DOMAIN command_queue :
           command_queue'[i].cur + command_queue'[i].old
               > command_queue[i].cur + command_queue[i].old

\* C23: push() submits every command list exactly once, in index order
\* 0..N-1; submission i carries fence i in fence-sync mode and no fence in
\* event-sync mode; push() returns without waiting on, or touching, any fence
\* or event.
C23_PushSubmitsEachListOnceInOrder ==
    [][PushStep =>
          /\ Len(submitted') = N
          /\ \A k \in 1..N :
                /\ submitted'[k].list = k - 1
                /\ submitted'[k].fence = IF sync_output_with_fences THEN k - 1 ELSE -1
          /\ \A i \in DOMAIN command_queue :
                command_queue'[i].cur + command_queue'[i].old
                    = command_queue[i].cur + command_queue[i].old + 1
          /\ pc = "idle" /\ pc' = "idle"
          /\ waited' = waited /\ pullIdx' = pullIdx
          /\ fences' = fences /\ events' = events]_vars

\* a push() in fence-sync mode has just handed both lists to the queue, list 0
\* with fence 0 and list 1 with fence 1, and nothing has been waited on
C23_Witness ==
    /\ constructed /\ N = 2 /\ sync_output_with_fences
    /\ submitted = <<[list |-> 0, fence |-> 0], [list |-> 1, fence |-> 1]>>
    /\ \A i \in DOMAIN command_queue : command_queue[i].cur = 1
    /\ pc = "idle" /\ waited = {}
    /\ \A i \in DOMAIN fences : ~fences[i].signaled

\* ---------------------------------------------------------------------------
\* C24 (as stated): in fence-sync mode a fence is attached to at most one
\* submission between two resets; in particular no push() hands the queue a
\* fence that an earlier submission has signaled and no reset() has cleared.
C24_FenceAttachedOncePerReset ==
    [][(PushStep /\ sync_output_with_fences) =>
          \A i \in DOMAIN fences : ~fences[i].signaled]_vars

\* ---------------------------------------------------------------------------
\* the primitive of index i that pull() waits on and reset() resets is signaled
PrimitiveSignaled(i) ==
    (sync_output_with_fences /\ fences[i].signaled)
    \/ (~sync_output_with_fences /\ events[i].signaled)

\* C29: the primitive pull() waits on and reset() resets for index i is the one
\* armed for command list i: in event-sync mode list i is closed with the
\* signal of event i, and of no other event, as its last command; in
\* fence-sync mode submission i of push() carries fence i; the completion of
\* an execution of list i signals primitive i; hence in a pull() that follows
\* reset(); push() the primitive waited on is already signaled or an
\* execution of its list is in flight.
C29_WaitedPrimitiveIsArmedForItsList ==
    /\ [](constructed =>
            /\ ~sync_output_with_fences =>
                   \A i \in DOMAIN command_lists :
                       LET instrs == command_lists[i].instrs
                       IN  /\ command_lists[i].closed
                           /\ instrs[Len(instrs)] = Instr("AppendSignalEvent", i)
                           /\ \A j \in 1..(Len(instrs) - 1) :
                                  instrs[j].op # "AppendSignalEvent"
                           /\ events[i].index = i
            /\ sync_output_with_fences =>
                   \A k \in DOMAIN submitted : submitted[k].fence = submitted[k].list)
    /\ [][constructed =>
             \A i \in DOMAIN command_queue :
                 (command_queue'[i].cur + command_queue'[i].old
                      < command_queue[i].cur + command_queue[i].old)
                 => PrimitiveSignaled(i)']_vars
    /\ []((pc = "pull" /\ cycle = 3 /\ pullIdx < N) =>
              (PrimitiveSignaled(pullIdx) \/ command_queue[pullIdx].cur > 0))

\* in event-sync mode, pull() after reset(); push() has passed index 0 and
\* waits on event 1, not signaled yet, while list 1 is still in flight
C29_Witness ==
    /\ constructed /\ N = 2 /\ ~sync_output_with_fences
    /\ pc = "pull" /\ cycle = 3 /\ pullIdx = 1
    /\ waited = {0}
    /\ ~events[1].signaled
    /\ command_queue[1].cur = 1

\* ---------------------------------------------------------------------------
\* C25: an initialize() that runs to its end with RUN_INFERENCES_SEQUENTIALLY
\* set leaves the artifact with as many last-submitted-event slots as its batch
\* size when the batch size is known and with exactly one slot otherwise; an
\* initialize() with the flag not set allocates no slot, and an artifact that
\* no initialize() has run on has none.
C25_OneEventSlotPerCommandList ==
    /\ InitializeRan =>
           LET before == graphOp.before
               after == graphs[graphOp.graph]
           IN  /\ graphOp.cfg.RUN_INFERENCES_SEQUENTIALLY =>
                      after.last_submitted_event =
                          IF after.batch_size # -1 THEN after.batch_size ELSE 1
               /\ ~graphOp.cfg.RUN_INFERENCES_SEQUENTIALLY =>
                      after.last_submitted_event = before.last_submitted_event
    /\ (callEnv.op = "adapter" /\ graphOp.op = "none") =>
           \A k \in DOMAIN graphs :
               graphs[k].last_submitted_event =
                   IF graphs[k].graph_initialized /\ callEnv.cfg.RUN_INFERENCES_SEQUENTIALLY
                   THEN (IF graphs[k].batch_size # -1 THEN graphs[k].batch_size ELSE 1)
                   ELSE 0

\* initialize() with the flag set has run on an artifact that had no slot, for
\* metadata of batch size 2, and has left two slots
C25_Witness ==
    /\ InitializeRan
    /\ graphOp.cfg.RUN_INFERENCES_SEQUENTIALLY
    /\ graphOp.before.last_submitted_event = 0
    /\ graphs[graphOp.graph].batch_size = 2
    /\ graphs[graphOp.graph].last_submitted_event = 2

\* ---------------------------------------------------------------------------
\* C26: the constructor of an artifact runs initialize() exactly when
\* CREATE_EXECUTOR is true and DEFER_WEIGHTS_LOAD is false: with these values an
\* artifact that has a driver context and a handle comes out of the adapter
\* call initialized, with descriptors and a command queue; with any other
\* values every artifact comes out unrealized (no descriptor, no queue, no
\* driver-side initialization, no batch size, no event slot) and the call
\* cannot fail in initialize().
C26_ConstructorInitializesUnlessDeferred ==
    (callEnv.op = "adapter" /\ graphOp.op \notin {"initialize", "destroy"}) =>
        LET runs == callEnv.cfg.CREATE_EXECUTOR /\ ~callEnv.cfg.DEFER_WEIGHTS_LOAD
        IN  /\ ~runs =>
                   /\ callResult.error \notin InitializeErrors
                   /\ \A k \in DOMAIN graphs :
                          /\ graphs[k].input_descriptors = <<>>
                          /\ graphs[k].output_descriptors = <<>>
                          /\ ~graphs[k].command_queue
                          /\ ~graphs[k].graph_initialized
                          /\ graphs[k].batch_size = -1
                          /\ graphs[k].last_submitted_event = 0
            /\ runs =>
                   \A k \in DOMAIN graphs :
                       (graphs[k].ext /\ graphs[k].handle # NullHandle) =>
                           /\ graphs[k].graph_initialized
                           /\ graphs[k].command_queue
                           /\ Len(graphs[k].input_descriptors)
                                  + Len(graphs[k].output_descriptors)
                                  = callEnv.drv.numGraphArgs

\* an adapter call made with CREATE_EXECUTOR = false and DEFER_WEIGHTS_LOAD =
\* false has returned an artifact with a driver context and a handle, not
\* initialized
C26_Witness ==
    /\ callEnv.op = "adapter"
    /\ graphOp.op = "none"
    /\ ~callEnv.cfg.CREATE_EXECUTOR
    /\ ~callEnv.cfg.DEFER_WEIGHTS_LOAD
    /\ Len(graphs) >= 1
    /\ graphs[1].ext
    /\ graphs[1].handle # NullHandle
    /\ ~graphs[1].graph_initialized
    /\ ~graphs[1].command_queue

\* ---------------------------------------------------------------------------
\* C27: when pfnGetProperties or one of the pfnGetArgumentProperties3 calls
\* fails during an initialize() that went past its early return, initialize()
\* fails with an error that names the failed call, creates no command queue
\* and does not invoke the driver-side graph initialization; batch size and
\* event slots are not touched. The same holds when the constructor is the
\* caller: the adapter call fails with that error and returns no artifact.
C27_DriverQueryFailureStopsInitialize ==
    /\ (/\ graphOp.op = "initialize"
        /\ graphOp.before.ext
        /\ graphOp.before.handle # NullHandle
        /\ (~graphOp.drv.propsOk
               \/ graphOp.drv.argFail \in 0..(graphOp.drv.numGraphArgs - 1)))
       => LET before == graphOp.before
              after == graphs[graphOp.graph]
          IN  /\ graphOp.outcome = "error"
              /\ graphOp.error = IF ~graphOp.drv.propsOk
                                 THEN "pfnGetProperties"
                                 ELSE "pfnGetArgumentProperties3"
              /\ after.command_queue = before.command_queue
              /\ after.graph_initialized = before.graph_initialized
              /\ after.batch_size = before.batch_size
              /\ after.last_submitted_event = before.last_submitted_event
    /\ (/\ callEnv.op = "adapter"
        /\ callResult.op \in {"compile", "parse"}
        /\ callEnv.cfg.CREATE_EXECUTOR /\ ~callEnv.cfg.DEFER_WEIGHTS_LOAD
        /\ ~callEnv.drv.propsOk
        /\ callResult.attempts # <<>>
        /\ callResult.attempts[1].ok)
       => /\ callResult.outcome = "error"
          /\ callResult.error = "pfnGetProperties"
          /\ graphs = <<>>

\* initialize() on a fresh artifact has failed in the pfnGetArgumentProperties3
\* call of the second argument: the error names the call, the descriptor of
\* the first argument is kept, there is no command queue and no driver-side
\* initialization
C27_Witness ==
    /\ graphOp.op = "initialize"
    /\ graphOp.before.ext
    /\ graphOp.before.handle # NullHandle
    /\ ~graphOp.before.command_queue
    /\ graphOp.drv.propsOk
    /\ graphOp.drv.argFail = 1
    /\ graphOp.error = "pfnGetArgumentProperties3"
    /\ graphs[graphOp.graph].input_descriptors # graphOp.before.input_descriptors
    /\ ~graphs[graphOp.graph].command_queue
    /\ ~graphs[graphOp.graph].graph_initialized

\* ---------------------------------------------------------------------------
\* C28: getCompiler fails with "Invalid NPU_COMPILER_TYPE" and creates no
\* adapter for a compiler type other than DRIVER and MLIR; for DRIVER and MLIR
\* it creates an adapter without a driver context when the backend is absent
\* or is not named "LEVEL0", and an adapter with the backend's init structures
\* when the backend is named "LEVEL0".
C28_GetCompilerByTypeAndBackend ==
    callEnv.op = "getCompiler" =>
        IF callEnv.compilerType \in {"DRIVER", "MLIR"}
        THEN /\ adapter.created
             /\ adapter.ext = (callEnv.backend = "LEVEL0")
             /\ callResult.op = "none"
        ELSE /\ ~adapter.created
             /\ callResult.op = "getCompiler"
             /\ callResult.outcome = "error"
             /\ callResult.error = "Invalid NPU_COMPILER_TYPE"

\* getCompiler for the MLIR compiler with a backend that is present but not
\* named "LEVEL0" has returned an adapter without a driver context
C28_Witness ==
    /\ callEnv.op = "getCompiler"
    /\ callEnv.compilerType = "MLIR"
    /\ callEnv.backend = "OTHER"
    /\ adapter.created
    /\ ~adapter.ext

\* ---------------------------------------------------------------------------
\* C30 (as stated): in split-weights v2 and v3, when the compiler stops
\* (returns null) before any main segment, or returns the main segment before
\* any init segment, the call ends in an error and returns no artifact: the init
\* and the main artifact are only ever built from segments that were collected.
C30_V23AbsentSegmentEndsInError ==
    (callResult.op = "compileWS" /\ callResult.version \in {2, 3}) =>
        LET s == callResult.script
            stop == FirstNonInit(s)
        IN  (stop > Len(s) \/ (stop = 1 /\ isMain(s[1]))) =>
                /\ callResult.outcome = "error"
                /\ graphs = <<>>

\* ---------------------------------------------------------------------------
\* the (argument index, tensor) pairs whose slices the command lists hold
BoundTensors ==
    IF updates = 0
    THEN {[arg |-> InputDescriptors[k], data |-> inputTensorsData[k]] :
              k \in DOMAIN InputDescriptors}
         \cup {[arg |-> OutputDescriptors[k], data |-> outputTensorsData[k]] :
                  k \in DOMAIN OutputDescriptors}
    ELSE IF lastUpdate.outcome = "patched"
    THEN {[arg |-> lastUpdate.index, data |-> lastUpdate.data]}
    ELSE {}

\* the offset into tensor b.data of the address list i holds for argument b.arg
BoundOffset(i, b) == command_lists[i].args[b.arg] - b.data.mem

C32_EventPoolSizedAndIndexed ==
    /\ [](constructed =>
            /\ event_pool = IF N >= 1 THEN N ELSE 1
            /\ DOMAIN events = 0..(N - 1)
            /\ \A i \in DOMAIN events :
                   /\ events[i].index = i
                   /\ events[i].index < event_pool
                   /\ \A j \in DOMAIN events : i # j => events[i].index # events[j].index)
    /\ [][(constructed /\ N = 0) =>
             /\ command_queue' = command_queue
             /\ command_lists' = command_lists
             /\ events' = events
             /\ fences' = fences
             /\ submitted' = <<>>
             /\ waited' = {}
             /\ event_pool' = event_pool
             /\ updates' # updates => lastUpdate'.outcome = "patched"]_vars

\* a Pipeline of no command list, with an event pool of one entry, has gone
\* through updateCommandList and then reset(); push(); pull()
C32_Witness ==
    /\ constructed /\ N = 0
    /\ event_pool = 1
    /\ events = <<>>
    /\ updates = 1 /\ lastUpdate.outcome = "patched"
    /\ cycle = 3 /\ pc = "idle"
    /\ submitted = <<>> /\ waited = {}

====
